---- MODULE Spec2Model ----
(***************************************************************************)
(* Model of the MIPS pipeline simulator of cs3339_project3: the hazard     *)
(* tracker (Stats.cpp) and the processor driver (CPU.cpp).                 *)
(*                                                                         *)
(* One step of the model is one iteration of the loop of CPU::run: fetch,  *)
(* decode, execute, mem, writeback.  The instruction memory image is the   *)
(* program's input, so the instruction fetched in an iteration is drawn    *)
(* from the modelled instruction set.  32-bit words are scaled down to     *)
(* WordBits bits; the general registers modelled are $zero, $at and $ra.   *)
(***************************************************************************)
EXTENDS Integers, Sequences, FiniteSets, TLC

(* ------------------------------ bounds -------------------------------- *)
MaxInstr == 3
WordBits == 3
MaxCalls == 1
MaxFlush == 9

(* ------------------- constants of Stats.h and CPU.h ------------------- *)
PIPESTAGES == 8
IF1 == 0
IF2 == 1
ID == 2
EXE1 == 3
EXE2 == 4
MEM1 == 5
MEM2 == 6
WB == 7

REG_ZERO == 0
REG_RA == 31
REG_HILO == 32

RECURSIVE Pow2(_)
Pow2(n) == IF n = 0 THEN 1 ELSE 2 * Pow2(n - 1)

WordMod == Pow2(WordBits)
Word == 0 .. WordMod - 1
\* the register indices the instruction fields are drawn from, the registers
\* of the register file that are modelled, and the immediates, shift
\* amounts, jump addresses and console inputs
FieldRegs == {REG_ZERO, 1}
ModelRegs == FieldRegs \cup {REG_RA}
Imms == {0, 1}
\* the trap request codes: 0, 1, 5 and 0xa are served, 2 is not
TrapCodes == {0, 1, 5, 10, 2}

VARIABLES
  stats,         \* the Stats object of the CPU: counters and resultReg
  regFile,       \* CPU::regFile, restricted to ModelRegs
  hi, lo,        \* CPU::hi, CPU::lo
  pc,            \* CPU::pc
  dMem,          \* the data memory, by aligned byte address
  instructions,  \* CPU::instructions
  stop,          \* CPU::stop
  instr,         \* CPU::instr, as its decoded fields
  writeDest, destReg, opIsLoad, opIsStore, opIsMultDiv,  \* control signals
  fault,         \* the process was ended by a fatal memory or ALU fault
  report,        \* the divisions printFinalStats evaluated, <<>> before it ran
  hist           \* history of the run, not program state; cond counts the
                 \* executed beq, bne, held those whose condition held,
                 \* and matched the slots that held r at the last
                 \* registerSrc(r) call

vars == <<stats, regFile, hi, lo, pc, dMem, instructions, stop, instr,
          writeDest, destReg, opIsLoad, opIsStore, opIsMultDiv, fault,
          report, hist>>

(* ------------------------------ Stats.cpp ------------------------------ *)

\* Stats::Stats
StatsInit ==
  [cycles |-> PIPESTAGES - 1, flushes |-> 0, bubbles |-> 0,
   memops |-> 0, branches |-> 0, taken |-> 0,
   resultReg |-> [i \in IF1 .. PIPESTAGES - 1 |-> -1]]

\* the loop "for (i = WB; i > low; i--) resultReg[i] = resultReg[i-1]"
ShiftFrom(rr, low) ==
  [i \in DOMAIN rr |-> IF i > low /\ i <= WB THEN rr[i - 1] ELSE rr[i]]

\* Stats::clock
clock(s) ==
  [s EXCEPT !.cycles = @ + 1,
            !.resultReg = [ShiftFrom(s.resultReg, IF1) EXCEPT ![IF1] = -1]]

\* a bubble that also takes the instruction in ID along
bubbleFromID(s) ==
  [s EXCEPT !.bubbles = @ + 1,
            !.cycles = @ + 1,
            !.resultReg = [ShiftFrom(s.resultReg, ID) EXCEPT ![ID] = -1]]

\* Stats::bubble
bubble(s) ==
  [s EXCEPT !.bubbles = @ + 1,
            !.cycles = @ + 1,
            !.resultReg = [ShiftFrom(s.resultReg, EXE1) EXCEPT ![EXE1] = -1]]

\* the stall cycles charged without moving the slots
BubblesNoShift(s, j) ==
  [s EXCEPT !.bubbles = @ + (WB - j), !.cycles = @ + (WB - j)]

\* the inner loop of registerSrc: "for (j = i; j < WB; j++) bubble();"
RECURSIVE BubblesFrom(_, _)
BubblesFrom(s, j) == IF j < WB THEN BubblesFrom(bubble(s), j + 1) ELSE s

\* the outer loop of registerSrc, from index i on; resultReg[i] is read
\* afresh in every iteration, after the bubbles of the earlier ones
RECURSIVE ScanSrc(_, _, _)
ScanSrc(s, r, i) ==
  IF i < WB
    THEN ScanSrc(IF s.resultReg[i] = r THEN BubblesFrom(s, i) ELSE s, r, i + 1)
    ELSE s

\* registerSrc without the test for register 0
registerSrcNoZeroTest(s, r) == ScanSrc(s, r, EXE1)

\* registerSrc scanning from ID on
registerSrcFromID(s, r) == IF r = 0 THEN s ELSE ScanSrc(s, r, ID)

\* Stats::registerSrc
registerSrc(s, r) == IF r = 0 THEN s ELSE ScanSrc(s, r, EXE1)

\* registerDest recording the write one stage late
registerDestEXE1(s, r) == [s EXCEPT !.resultReg[EXE1] = r]

\* Stats::registerDest
registerDest(s, r) == [s EXCEPT !.resultReg[ID] = r]

\* a flush iteration that empties slot i and shifts nothing
FlushIterNoShift(s, i) ==
  [s EXCEPT !.cycles = @ + 1,
            !.flushes = @ + 1,
            !.resultReg = [s.resultReg EXCEPT ![i] = -1]]

\* one iteration of the outer loop of Stats::flush: the inner loop declares
\* its own i, so the store after it, resultReg[i] = -1, uses the OUTER i
FlushIter(s, i) ==
  [s EXCEPT !.cycles = @ + 1,
            !.flushes = @ + 1,
            !.resultReg = [ShiftFrom(s.resultReg, IF1) EXCEPT ![i] = -1]]

RECURSIVE FlushFrom(_, _, _)
FlushFrom(s, i, count) ==
  IF i < count THEN FlushFrom(FlushIter(s, i), i + 1, count) ELSE s

\* Stats::flush, as far as it stays inside the array
flush(s, count) == FlushFrom(s, 0, count)

\* the counters of the tracker (Stats.h)
Counters == {"cycles", "flushes", "bubbles", "memops", "branches", "taken"}

\* a stray store of -1 over the counters F
Clobber(s, F) == [k \in DOMAIN s |-> IF k \in F THEN -1 ELSE s[k]]

\* Stats::flush with count > PIPESTAGES stores -1 at resultReg[PIPESTAGES]
\* .. resultReg[count - 1], past the end of the array: undefined behaviour.
\* Each stray store lands on one counter of the tracker or on none of them.
flushOutcomes(s, count) ==
  IF count <= PIPESTAGES
    THEN {flush(s, count)}
    ELSE {Clobber(inside, F) :
            inside \in {flush(s, count)},
            F \in {G \in SUBSET Counters : Cardinality(G) <= count - PIPESTAGES}}

\* Stats::countMemOp, countBranch, countTaken (Stats.h)
countMemOp(s) == [s EXCEPT !.memops = @ + 1]
countBranch(s) == [s EXCEPT !.branches = @ + 1]
countTaken(s) == [s EXCEPT !.taken = @ + 1]


\* the indices "for (i = WB; i > low; i--) resultReg[i] = resultReg[i-1]"
\* reads and writes
ShiftIndices(low) == UNION {{i, i - 1} : i \in low + 1 .. WB}

\* the indices of resultReg each method reads or writes
clockIndices == ShiftIndices(IF1) \cup {IF1}
bubbleIndices == ShiftIndices(EXE1) \cup {EXE1}
registerSrcIndices(r) ==
  IF r = 0 THEN {} ELSE (EXE1 .. WB - 1) \cup bubbleIndices
registerDestIndices == {ID}
flushIndices(count) ==
  UNION {ShiftIndices(IF1) \cup {i} : i \in 0 .. count - 1}

(* ------------- the tracker calls decode makes, in order ---------------- *)
Dest(r) == [f |-> "registerDest", arg |-> r]
Src(r) == [f |-> "registerSrc", arg |-> r]
Flush(n) == [f |-> "flush", arg |-> n]
CountMemOp == [f |-> "countMemOp", arg |-> 0]
CountBranch == [f |-> "countBranch", arg |-> 0]
CountTaken == [f |-> "countTaken", arg |-> 0]
Clock == [f |-> "clock", arg |-> 0]
Bubble == [f |-> "bubble", arg |-> 0]
NoCall == [f |-> "none", arg |-> 0]

\* the effect of one call on the tracker
ApplyCall(s, c) ==
  CASE c.f = "registerDest" -> registerDest(s, c.arg)
    [] c.f = "registerSrc" -> registerSrc(s, c.arg)
    [] c.f = "flush" -> flush(s, c.arg)
    [] c.f = "countMemOp" -> countMemOp(s)
    [] c.f = "countBranch" -> countBranch(s)
    [] c.f = "countTaken" -> countTaken(s)
    [] c.f = "clock" -> clock(s)
    [] c.f = "bubble" -> bubble(s)

\* the indices of resultReg one call uses
IndicesOf(c) ==
  CASE c.f = "registerDest" -> registerDestIndices
    [] c.f = "registerSrc" -> registerSrcIndices(c.arg)
    [] c.f = "flush" -> flushIndices(c.arg)
    [] c.f = "clock" -> clockIndices
    [] c.f = "bubble" -> bubbleIndices
    [] OTHER -> {}

\* the calls of one decode, applied in program order
RECURSIVE RunCalls(_, _)
RunCalls(s, calls) ==
  IF calls = <<>> THEN s ELSE RunCalls(ApplyCall(s, Head(calls)), Tail(calls))

(* ----------------- the ALU and the data memory (ALU.h, Memory.h) ------- *)
RECURSIVE BitAnd(_, _, _)
BitAnd(a, b, n) ==
  IF n = 0 THEN 0
  ELSE (IF a % 2 = 1 /\ b % 2 = 1 THEN 1 ELSE 0) + 2 * BitAnd(a \div 2, b \div 2, n - 1)

\* a word read as a two's complement number
Signed(a) == IF a >= WordMod \div 2 THEN a - WordMod ELSE a

\* ALU::op
alu(op, a, b) ==
  CASE op = "ADD" -> (a + b) % WordMod
    [] op = "AND" -> BitAnd(a, b, WordBits)
    [] op = "SHF_L" -> IF b >= WordBits THEN 0 ELSE (a * Pow2(b)) % WordMod
    [] op = "SHF_R" -> IF b >= WordBits THEN (IF Signed(a) < 0 THEN WordMod - 1 ELSE 0)
                       ELSE (Signed(a) \div Pow2(b)) % WordMod
    [] op = "CMP_LT" -> IF Signed(a) < Signed(b) THEN 1 ELSE 0
    [] op = "MUL" -> (a * b) % WordMod
    [] op = "DIV" -> IF b = 0 THEN 0 ELSE a \div b

\* ALU::getUpper, ALU::getLower after op
aluUpper(op, a, b) ==
  CASE op = "MUL" -> ((a * b) \div WordMod) % WordMod
    [] op = "DIV" -> IF b = 0 THEN 0 ELSE a % b
    [] OTHER -> 0
aluLower(op, a, b) == alu(op, a, b)

\* the ALU faults on a division by zero
aluFault(op, a, b) == op = "DIV" /\ b = 0

\* the byte addresses Memory::loadWord and storeWord accept: aligned, in range
DataAddrs == {a \in Word : a % 4 = 0}


(* ------------------------------- CPU.cpp ------------------------------- *)

\* an instruction word, by the fields decode extracts from it
Instr(op, rs, rt, rd, shamt, imm) ==
  [op |-> op, rs |-> rs, rt |-> rt, rd |-> rd, shamt |-> shamt, imm |-> imm]

\* CPU::decode, lines 86-91: the control signals before the switch.  p is the
\* pc after fetch.  destReg, aluSrc1 and aluSrc2 are not reset: destReg keeps
\* its old value; aluSrc1 and aluSrc2 are left out of the state, because a
\* case that does not set them commits nothing execute computes from them.
DecReset(p) ==
  [writeDest |-> FALSE, opIsLoad |-> FALSE, opIsStore |-> FALSE,
   opIsMultDiv |-> FALSE, aluOp |-> "ADD", storeData |-> 0,
   destReg |-> destReg, aluSrc1 |-> 0, aluSrc2 |-> 0,
   pc |-> p, stop |-> stop, regFile |-> regFile, calls |-> <<>>]

\* case 0x00 / 0x00 sll and 0x03 sra
DecShift(i, d, op) ==
  [d EXCEPT !.writeDest = TRUE, !.destReg = i.rd, !.aluOp = op,
            !.aluSrc1 = regFile[i.rs], !.aluSrc2 = i.shamt,
            !.calls = <<Dest(i.rd), Src(i.rs)>>]
DecSll(i, d) == DecShift(i, d, "SHF_L")
DecSra(i, d) == DecShift(i, d, "SHF_R")

\* jr without its flush
DecJrNoFlush(i, d) == [d EXCEPT !.pc = regFile[i.rs]]

\* case 0x08 jr
DecJr(i, d) ==
  [d EXCEPT !.pc = regFile[i.rs], !.calls = <<Flush(2)>>]

\* case 0x10 mfhi, 0x12 mflo
DecMfhi(i, d) ==
  [d EXCEPT !.writeDest = TRUE, !.destReg = i.rd, !.aluOp = "ADD",
            !.aluSrc1 = hi, !.aluSrc2 = regFile[REG_ZERO],
            !.calls = <<Dest(i.rd), Src(REG_HILO)>>]
DecMflo(i, d) ==
  [d EXCEPT !.writeDest = TRUE, !.destReg = i.rd, !.aluOp = "ADD",
            !.aluSrc1 = lo, !.aluSrc2 = regFile[REG_ZERO],
            !.calls = <<Dest(i.rd), Src(REG_HILO)>>]

\* case 0x18 mult, 0x1a div
DecMult(i, d) ==
  [d EXCEPT !.opIsMultDiv = TRUE, !.aluOp = "MUL",
            !.aluSrc1 = regFile[i.rs], !.aluSrc2 = regFile[i.rt],
            !.calls = <<Dest(REG_HILO), Src(i.rs), Src(i.rt)>>]
DecDiv(i, d) ==
  [d EXCEPT !.opIsMultDiv = TRUE, !.aluOp = "DIV",
            !.aluSrc1 = regFile[i.rs], !.aluSrc2 = regFile[i.rt],
            !.calls = <<Dest(REG_HILO), Src(i.rs), Src(i.rt)>>]

\* case 0x21 addu
DecAddu(i, d) ==
  [d EXCEPT !.writeDest = TRUE, !.destReg = i.rd, !.aluOp = "ADD",
            !.aluSrc1 = regFile[i.rs], !.aluSrc2 = regFile[i.rt],
            !.calls = <<Dest(i.rd), Src(i.rs), Src(i.rt)>>]

\* case 0x23 subu: aluSrc2 = -regFile[rt]
DecSubu(i, d) ==
  [d EXCEPT !.writeDest = TRUE, !.destReg = i.rd, !.aluOp = "ADD",
            !.aluSrc1 = regFile[i.rs],
            !.aluSrc2 = (WordMod - regFile[i.rt]) % WordMod,
            !.calls = <<Dest(i.rd), Src(i.rs), Src(i.rt)>>]

\* case 0x2a slt: no registerDest call
DecSlt(i, d) ==
  [d EXCEPT !.writeDest = TRUE, !.destReg = i.rd, !.aluOp = "CMP_LT",
            !.aluSrc1 = regFile[i.rs], !.aluSrc2 = regFile[i.rt],
            !.calls = <<Src(i.rs), Src(i.rt)>>]

\* the default of the funct switch made fatal, as the default of trap is
DecFunctDefaultFatal(i, d) == [d EXCEPT !.stop = TRUE]

\* case 0x00, default of the funct switch: a diagnostic on cerr only
DecFunctDefault(i, d) == d

\* case 0x02 j: pc = (pc & 0xf0000000) | addr << 2
DecJ(i, d) ==
  [d EXCEPT !.writeDest = FALSE, !.pc = (i.imm * 4) % WordMod,
            !.calls = <<Flush(2)>>]

\* case 0x03 jal
DecJal(i, d) ==
  [d EXCEPT !.writeDest = TRUE, !.destReg = REG_RA, !.aluOp = "ADD",
            !.aluSrc1 = d.pc, !.aluSrc2 = regFile[REG_ZERO],
            !.pc = (i.imm * 4) % WordMod,
            !.calls = <<Dest(REG_RA), Flush(2)>>]

\* case 0x04 beq: only "pc = pc + (simm << 2)" is under the if; countTaken
\* and flush(2) follow it unconditionally
DecBeq(i, d) ==
  [d EXCEPT !.pc = IF regFile[i.rs] = regFile[i.rt]
                     THEN (d.pc + i.imm * 4) % WordMod ELSE d.pc,
            !.calls = <<CountBranch, Src(i.rs), Src(i.rt), CountTaken, Flush(2)>>]

\* case 0x05 bne, as beq with the condition negated (line 231 reads
\* istats.countBranch(); it is taken as the call on stats)
DecBne(i, d) ==
  [d EXCEPT !.pc = IF regFile[i.rs] # regFile[i.rt]
                     THEN (d.pc + i.imm * 4) % WordMod ELSE d.pc,
            !.calls = <<CountBranch, Src(i.rs), Src(i.rt), CountTaken, Flush(2)>>]

\* case 0x09 addiu, 0x0c andi
DecAddiu(i, d) ==
  [d EXCEPT !.writeDest = TRUE, !.destReg = i.rt, !.aluOp = "ADD",
            !.aluSrc1 = regFile[i.rs], !.aluSrc2 = i.imm,
            !.calls = <<Dest(i.rt), Src(i.rs)>>]
DecAndi(i, d) ==
  [d EXCEPT !.writeDest = TRUE, !.destReg = i.rt, !.aluOp = "AND",
            !.aluSrc1 = regFile[i.rs], !.aluSrc2 = i.imm,
            !.calls = <<Dest(i.rt), Src(i.rs)>>]

\* case 0x0f lui: destReg is not assigned
DecLui(i, d) ==
  [d EXCEPT !.writeDest = TRUE, !.aluOp = "SHF_L",
            !.aluSrc1 = i.imm, !.aluSrc2 = 16,
            !.calls = <<Dest(i.rt)>>]

\* trap whose default reports the request and goes on
DecTrapDefaultGoesOn(i, d, in) ==
  CASE i.imm % 16 = 5 -> [d EXCEPT !.regFile[i.rt] = in]
    [] i.imm % 16 = 10 -> [d EXCEPT !.stop = TRUE]
    [] OTHER -> d

\* case 0x1a trap; the request code is addr & 0xf, the low bits of the
\* immediate field; in is the number request 5 reads from cin
DecTrap(i, d, in) ==
  CASE i.imm % 16 = 0 -> d
    [] i.imm % 16 = 1 -> d
    [] i.imm % 16 = 5 -> [d EXCEPT !.regFile[i.rt] = in]
    [] i.imm % 16 = 10 -> [d EXCEPT !.stop = TRUE]
    [] OTHER -> [d EXCEPT !.stop = TRUE]

\* lw that charges a load-use stall cycle of its own
DecLwLoadDelay(i, d) ==
  [d EXCEPT !.opIsLoad = TRUE, !.writeDest = TRUE, !.destReg = i.rt,
            !.aluOp = "ADD", !.aluSrc1 = regFile[i.rs], !.aluSrc2 = i.imm,
            !.calls = <<CountMemOp, Dest(i.rt), Src(i.rs), Bubble>>]

\* case 0x23 lw
DecLw(i, d) ==
  [d EXCEPT !.opIsLoad = TRUE, !.writeDest = TRUE, !.destReg = i.rt,
            !.aluOp = "ADD", !.aluSrc1 = regFile[i.rs], !.aluSrc2 = i.imm,
            !.calls = <<CountMemOp, Dest(i.rt), Src(i.rs)>>]

\* case 0x2b sw
DecSw(i, d) ==
  [d EXCEPT !.opIsStore = TRUE, !.storeData = regFile[i.rt],
            !.aluOp = "ADD", !.aluSrc1 = regFile[i.rs], !.aluSrc2 = i.imm,
            !.calls = <<CountMemOp, Src(i.rt), Src(i.rs)>>]

\* default of the opcode switch: a diagnostic on cerr only
DecOpcodeDefault(i, d) == d

\* CPU::decode
decode(i, p, in) ==
  LET d == DecReset(p) IN
  CASE i.op = "sll" -> DecSll(i, d)
    [] i.op = "sra" -> DecSra(i, d)
    [] i.op = "jr" -> DecJr(i, d)
    [] i.op = "mfhi" -> DecMfhi(i, d)
    [] i.op = "mflo" -> DecMflo(i, d)
    [] i.op = "mult" -> DecMult(i, d)
    [] i.op = "div" -> DecDiv(i, d)
    [] i.op = "addu" -> DecAddu(i, d)
    [] i.op = "subu" -> DecSubu(i, d)
    [] i.op = "slt" -> DecSlt(i, d)
    [] i.op = "funct?" -> DecFunctDefault(i, d)
    [] i.op = "j" -> DecJ(i, d)
    [] i.op = "jal" -> DecJal(i, d)
    [] i.op = "beq" -> DecBeq(i, d)
    [] i.op = "bne" -> DecBne(i, d)
    [] i.op = "addiu" -> DecAddiu(i, d)
    [] i.op = "andi" -> DecAndi(i, d)
    [] i.op = "lui" -> DecLui(i, d)
    [] i.op = "trap" -> DecTrap(i, d, in)
    [] i.op = "lw" -> DecLw(i, d)
    [] i.op = "sw" -> DecSw(i, d)
    [] OTHER -> DecOpcodeDefault(i, d)


\* a source read stalls: register r has a pending write in EXE1..MEM2
Pending(s, r) == r # 0 /\ \E k \in EXE1 .. WB - 1 : s.resultReg[k] = r

\* the slots registerSrc(r) scans that hold r
MatchesOf(s, r) == {k \in EXE1 .. WB - 1 : s.resultReg[k] = r}

\* some registerSrc call of the list finds its register pending
RECURSIVE HazardIn(_, _)
HazardIn(s, calls) ==
  IF calls = <<>> THEN FALSE
  ELSE \/ Head(calls).f = "registerSrc" /\ Pending(s, Head(calls).arg)
       \/ HazardIn(ApplyCall(s, Head(calls)), Tail(calls))

\* CPU::decode, lines 225 and 234: the condition of the conditional branch i
\* holds in register file rf
BranchHolds(i, rf) ==
  \/ i.op = "beq" /\ rf[i.rs] = rf[i.rt]
  \/ i.op = "bne" /\ rf[i.rs] # rf[i.rt]

ControlOps == {"j", "jal", "jr", "beq", "bne"}

\* CPU::CPU.  The constructor leaves destReg unassigned: any register index.
Init ==
  /\ stats = StatsInit
  /\ regFile = [r \in ModelRegs |-> 0]
  /\ hi = 0
  /\ lo = 0
  /\ pc = 0
  /\ dMem = [a \in DataAddrs |-> 0]
  /\ instructions = 0
  /\ stop = FALSE
  /\ instr = Instr("none", 0, 0, 0, 0, 0)
  /\ writeDest = FALSE
  /\ destReg \in ModelRegs
  /\ opIsLoad = FALSE
  /\ opIsStore = FALSE
  /\ opIsMultDiv = FALSE
  /\ fault = FALSE
  /\ report = <<>>
  /\ hist = [ctl |-> FALSE, hazard |-> FALSE, calls |-> 0, last |-> NoCall,
            matched |-> 0, cond |-> 0, held |-> 0]

\* CPU::writeback, on the register file
writeback(rf, wd, dr, data) ==
  IF wd /\ dr > 0 THEN [rf EXCEPT ![dr] = data] ELSE rf

\* one iteration of the loop of CPU::run on instruction i, with in the
\* number on cin: fetch, decode, execute, mem, writeback
Iterate(i, in) ==
  /\ ~stop /\ ~fault /\ report = <<>>
  /\ instructions < MaxInstr
  /\ \E d \in {decode(i, (pc + 4) % WordMod, in)} :
     \E aluOut \in {alu(d.aluOp, d.aluSrc1, d.aluSrc2)} :
     \E dead \in {aluFault(d.aluOp, d.aluSrc1, d.aluSrc2)
                    \/ ((d.opIsLoad \/ d.opIsStore) /\ aluOut \notin DataAddrs)} :
     \E writeData \in {IF d.opIsLoad /\ ~dead THEN dMem[aluOut] ELSE aluOut} :
        /\ instructions' = instructions + 1
        /\ instr' = i
        /\ pc' = d.pc
        /\ stop' = d.stop
        /\ writeDest' = d.writeDest
        /\ destReg' = d.destReg
        /\ opIsLoad' = d.opIsLoad
        /\ opIsStore' = d.opIsStore
        /\ opIsMultDiv' = d.opIsMultDiv
        /\ stats' = RunCalls(stats, d.calls)
        /\ fault' = dead
        /\ dMem' = IF d.opIsStore /\ ~dead
                     THEN [dMem EXCEPT ![aluOut] = d.storeData] ELSE dMem
        /\ regFile' = IF dead THEN d.regFile
                      ELSE writeback(d.regFile, d.writeDest, d.destReg, writeData)
        /\ hi' = IF d.opIsMultDiv /\ ~dead
                   THEN aluUpper(d.aluOp, d.aluSrc1, d.aluSrc2) ELSE hi
        /\ lo' = IF d.opIsMultDiv /\ ~dead
                   THEN aluLower(d.aluOp, d.aluSrc1, d.aluSrc2) ELSE lo
        /\ hist' = [hist EXCEPT
                      !.ctl = @ \/ i.op \in ControlOps,
                      !.hazard = @ \/ HazardIn(stats, d.calls),
                      !.cond = @ + (IF i.op \in {"beq", "bne"} THEN 1 ELSE 0),
                      !.held = @ + (IF BranchHolds(i, regFile) THEN 1 ELSE 0)]
        /\ UNCHANGED report

\* The instructions an iteration may fetch.  A field the decode case of the
\* instruction does not read is 0.
RunSll == \E rd, rs \in FieldRegs : Iterate(Instr("sll", rs, 0, rd, 1, 0), 0)
RunSra == \E rd, rs \in FieldRegs : Iterate(Instr("sra", rs, 0, rd, 1, 0), 0)
RunJr == \E rs \in ModelRegs : Iterate(Instr("jr", rs, 0, 0, 0, 0), 0)
RunMfhi == \E rd \in FieldRegs : Iterate(Instr("mfhi", 0, 0, rd, 0, 0), 0)
RunMflo == \E rd \in FieldRegs : Iterate(Instr("mflo", 0, 0, rd, 0, 0), 0)
RunMult == \E rs, rt \in FieldRegs : Iterate(Instr("mult", rs, rt, 0, 0, 0), 0)
RunDiv == \E rs, rt \in FieldRegs : Iterate(Instr("div", rs, rt, 0, 0, 0), 0)
RunAddu == \E rd, rs, rt \in FieldRegs : Iterate(Instr("addu", rs, rt, rd, 0, 0), 0)
RunSubu == \E rd, rs, rt \in FieldRegs : Iterate(Instr("subu", rs, rt, rd, 0, 0), 0)
RunSlt == \E rd, rs, rt \in FieldRegs : Iterate(Instr("slt", rs, rt, rd, 0, 0), 0)
RunFunctDefault == \E rd \in FieldRegs : Iterate(Instr("funct?", 0, 0, rd, 0, 0), 0)
RunJ == \E a \in Imms : Iterate(Instr("j", 0, 0, 0, 0, a), 0)
RunJal == \E a \in Imms : Iterate(Instr("jal", 0, 0, 0, 0, a), 0)
RunBeq == \E rs, rt \in FieldRegs : Iterate(Instr("beq", rs, rt, 0, 0, 1), 0)
RunBne == \E rs, rt \in FieldRegs : Iterate(Instr("bne", rs, rt, 0, 0, 1), 0)
RunAddiu == \E rs, rt \in FieldRegs, im \in Imms : Iterate(Instr("addiu", rs, rt, 0, 0, im), 0)
RunAndi == \E rs, rt \in FieldRegs, im \in Imms : Iterate(Instr("andi", rs, rt, 0, 0, im), 0)
RunLui == \E rt \in FieldRegs : Iterate(Instr("lui", 0, rt, 0, 0, 1), 0)
RunTrap ==
  \/ \E code \in TrapCodes \ {1, 5} : Iterate(Instr("trap", 0, 0, 0, 0, code), 0)
  \/ \E rs \in FieldRegs : Iterate(Instr("trap", rs, 0, 0, 0, 1), 0)
  \/ \E rt \in FieldRegs, in \in Imms : Iterate(Instr("trap", 0, rt, 0, 0, 5), in)
RunLw == \E rs, rt \in FieldRegs, im \in Imms : Iterate(Instr("lw", rs, rt, 0, 0, im), 0)
RunSw == \E rs, rt \in FieldRegs, im \in Imms : Iterate(Instr("sw", rs, rt, 0, 0, im), 0)
RunOpcodeDefault == Iterate(Instr("opcode?", 0, 0, 0, 0, 0), 0)

\* CPU::printFinalStats, called once run has returned: the quotients it
\* prints, each as numerator and denominator
printFinalStats ==
  /\ stop /\ ~fault /\ report = <<>>
  /\ report' = << [num |-> stats.cycles, den |-> instructions],
                  [num |-> 100 * stats.memops, den |-> instructions],
                  [num |-> 100 * stats.branches, den |-> instructions],
                  [num |-> 100 * stats.taken, den |-> stats.branches] >>
  /\ UNCHANGED <<stats, regFile, hi, lo, pc, dMem, instructions, stop, instr,
                 writeDest, destReg, opIsLoad, opIsStore, opIsMultDiv, fault,
                 hist>>

Next ==
  \/ RunSll \/ RunSra \/ RunJr \/ RunMfhi \/ RunMflo \/ RunMult \/ RunDiv
  \/ RunAddu \/ RunSubu \/ RunSlt \/ RunFunctDefault
  \/ RunJ \/ RunJal \/ RunBeq \/ RunBne \/ RunAddiu \/ RunAndi \/ RunLui
  \/ RunTrap \/ RunLw \/ RunSw \/ RunOpcodeDefault
  \/ printFinalStats

Spec == Init /\ [][Next]_vars


(* ------------- the tracker on its own, from any slot contents ---------- *)

\* what a slot may hold: empty, or one of two register indices
SlotVals == {-1, REG_ZERO, 1}

\* the slot arrays registerDest and clock calls can build: IF1 and IF2 are
\* always empty, every other slot holds anything
SlotArrays ==
  {rr \in [IF1 .. PIPESTAGES - 1 -> SlotVals] : rr[IF1] = -1 /\ rr[IF2] = -1}

InitStats ==
  /\ stats \in {[StatsInit EXCEPT !.resultReg = rr] : rr \in SlotArrays}
  /\ regFile = [r \in ModelRegs |-> 0]
  /\ hi = 0
  /\ lo = 0
  /\ pc = 0
  /\ dMem = [a \in DataAddrs |-> 0]
  /\ instructions = 0
  /\ stop = FALSE
  /\ instr = Instr("none", 0, 0, 0, 0, 0)
  /\ writeDest = FALSE
  /\ destReg = REG_ZERO
  /\ opIsLoad = FALSE
  /\ opIsStore = FALSE
  /\ opIsMultDiv = FALSE
  /\ fault = FALSE
  /\ report = <<>>
  /\ hist = [ctl |-> FALSE, hazard |-> FALSE, calls |-> 0, last |-> NoCall,
            matched |-> 0, cond |-> 0, held |-> 0]

\* one call c on the tracker, which leaves it as out
CallTo(c, out) ==
  /\ hist.calls < MaxCalls
  /\ stats' = out
  /\ hist' = [hist EXCEPT
                !.calls = @ + 1,
                !.last = c,
                !.matched = IF c.f = "registerSrc"
                              THEN Cardinality(MatchesOf(stats, c.arg)) ELSE 0]
  /\ UNCHANGED <<regFile, hi, lo, pc, dMem, instructions, stop, instr,
                 writeDest, destReg, opIsLoad, opIsStore, opIsMultDiv, fault,
                 report>>

Call(c) == CallTo(c, ApplyCall(stats, c))

CallClock == Call(Clock)
CallBubble == Call(Bubble)
CallRegisterSrc == \E r \in SlotVals \ {-1} : Call(Src(r))
CallRegisterDest == \E r \in SlotVals \ {-1} : Call(Dest(r))
CallFlush ==
  \E n \in 0 .. MaxFlush : \E out \in flushOutcomes(stats, n) : CallTo(Flush(n), out)

\* the instructions whose decode drives the tracker here
TrackedInstrs ==
  {Instr("lw", b, r, 0, 0, 0) : b, r \in FieldRegs}
    \cup {Instr("addiu", b, r, 0, 0, 0) : b, r \in FieldRegs}
    \cup {Instr("addu", a, b, REG_ZERO, 0, 0) : a, b \in FieldRegs}
    \cup {Instr("sw", REG_ZERO, r, 0, 0, 0) : r \in FieldRegs}
    \cup {Instr("beq", r, REG_ZERO, 0, 0, 1) : r \in FieldRegs}

\* the tracker calls of the decode of one instruction
CallDecode ==
  \E i \in TrackedInstrs :
    /\ hist.calls < MaxCalls
    /\ stats' = RunCalls(stats, decode(i, 0, 0).calls)
    /\ instr' = i
    /\ hist' = [hist EXCEPT !.calls = @ + 1, !.last = NoCall, !.matched = 0]
    /\ UNCHANGED <<regFile, hi, lo, pc, dMem, instructions, stop,
                   writeDest, destReg, opIsLoad, opIsStore, opIsMultDiv, fault,
                   report>>

NextStats ==
  \/ CallClock \/ CallBubble \/ CallRegisterSrc \/ CallRegisterDest
  \/ CallFlush \/ CallDecode

SpecStats == InitStats /\ [][NextStats]_vars

(* ------------------------- the claims, C1 .. C10 ----------------------- *)

\* an iteration of the run loop has just executed instr'
Executed == instructions' = instructions + 1

\* the bubbles a list of tracker calls inserts from tracker state s
BubblesOf(s, calls) == RunCalls(s, calls).bubbles - s.bubbles

\* the tracker calls decode makes for instruction i (they do not depend on
\* register values)
CallsOf(i) == decode(i, 0, 0).calls

\* C1: a run with no control-transfer instruction and no read of a register
\* pending in EXE1..MEM2 halts with cycles = instructions + (PIPESTAGES - 1)
\* and bubbles = 0.  It is stated of the runs that execute at least one
\* instruction before the trap that halts them.
C1_CyclesAtHalt ==
  (stop /\ ~fault /\ instructions > 1 /\ ~hist.ctl /\ ~hist.hazard)
    => (stats.cycles = instructions + (PIPESTAGES - 1) /\ stats.bubbles = 0)

\* C2: every executed j, jal, jr and every executed beq, bne whose condition
\* holds adds exactly 2 to flushes, and 2 flush cycles to cycles on top of
\* the bubbles its source reads add.
C2_FlushPenalty ==
  [][(Executed /\ (instr'.op \in {"j", "jal", "jr"} \/ BranchHolds(instr', regFile)))
       => /\ stats'.flushes = stats.flushes + 2
          /\ stats'.cycles = stats.cycles + 2 + (stats'.bubbles - stats.bubbles)]_vars

\* C2 witness: a taken beq has executed whose source read also stalled
C2_Witness ==
  /\ instr.op = "beq" /\ regFile[instr.rs] = regFile[instr.rt]
  /\ instructions = 3 /\ stats.flushes = 4 /\ stats.bubbles = 3
  /\ stats.cycles = (PIPESTAGES - 1) + 4 + 3

\* C3: a beq or bne whose condition does not hold leaves flushes unchanged
\* and adds no flush cycle to cycles.
C3_NotTakenNoFlush ==
  [][(Executed /\ instr'.op \in {"beq", "bne"} /\ ~BranchHolds(instr', regFile))
       => /\ stats'.flushes = stats.flushes
          /\ stats'.cycles = stats.cycles + (stats'.bubbles - stats.bubbles)]_vars

\* C4: registerSrc(0) changes nothing of the tracker, whatever is pending.
C4_SrcZeroNoOp == registerSrc(stats, REG_ZERO) = stats

\* C4 witness: registerSrc(0) has been called while a write to register 0
\* is pending in each of EXE1..MEM2
C4_Witness ==
  /\ hist.last = Src(REG_ZERO)
  /\ \A k \in EXE1 .. WB - 1 : stats.resultReg[k] = REG_ZERO
  /\ stats.bubbles = 0 /\ stats.cycles = PIPESTAGES - 1

\* C5: register 0 holds 0 in every reachable state.
C5_RegZeroIsZero == regFile[REG_ZERO] = 0

\* C6: an addu writing a non-zero register R, immediately followed by a subu
\* that reads R, leaves bubbles > 0 once the subu is decoded.
C6_AddThenSubStalls ==
  [][(/\ instr.op = "addu" /\ instr.rd # REG_ZERO
      /\ Executed /\ instr'.op = "subu"
      /\ (instr'.rs = instr.rd \/ instr'.rt = instr.rd))
       => stats'.bubbles > 0]_vars

\* the instructions reading register r that the comparison of C7 follows
\* the write with
ReadersOf(r) ==
  { Instr("addu", r, REG_ZERO, REG_ZERO, 0, 0),
    Instr("sw", REG_ZERO, r, 0, 0, 0),
    Instr("beq", r, REG_ZERO, 0, 0, 1) }

\* the bubbles inserted by instruction w followed by instruction rd
PairBubbles(s, w, rd) == BubblesOf(s, CallsOf(w) \o CallsOf(rd))

\* C7 as stated: from the same tracker state, lw into R followed by a reader
\* of R inserts strictly more bubbles than addiu into R followed by the same
\* reader.
C7_LoadStallsMore ==
  \A r \in FieldRegs \ {REG_ZERO}, b \in FieldRegs :
    \A rd \in ReadersOf(r) :
      PairBubbles(stats, Instr("lw", b, r, 0, 0, 0), rd)
        > PairBubbles(stats, Instr("addiu", b, r, 0, 0, 0), rd)

\* C7 as amended: the two pairs insert the same number of bubbles.
C7_LoadStallsSame ==
  \A r \in FieldRegs \ {REG_ZERO}, b \in FieldRegs :
    \A rd \in ReadersOf(r) :
      PairBubbles(stats, Instr("lw", b, r, 0, 0, 0), rd)
        = PairBubbles(stats, Instr("addiu", b, r, 0, 0, 0), rd)

\* C7 witness: an lw into a non-zero register R has executed and a reader of
\* R that follows it stalls
C7_Witness ==
  /\ instr.op = "lw" /\ instr.rt # REG_ZERO /\ ~fault
  /\ stats.resultReg[ID] = instr.rt
  /\ \A rd \in ReadersOf(instr.rt) : BubblesOf(stats, CallsOf(rd)) > 0

\* a trap whose request code is none of 0, 1, 5, 0xa
UnsupportedTrap(i) == i.op = "trap" /\ i.imm % 16 \notin {0, 1, 5, 10}

C9_UnknownFunctNoOp ==
  [][(Executed /\ instr'.op = "funct?")
       => /\ ~stop'
          /\ regFile' = regFile /\ hi' = hi /\ lo' = lo /\ dMem' = dMem
          /\ stats'.resultReg = stats.resultReg
          /\ pc' = (pc + 4) % WordMod]_vars

\* C9 witness: an unknown function code has executed in a state with a
\* written register and a pending write, and the run goes on
C9_Witness ==
  /\ instr.op = "funct?" /\ ~stop /\ ~fault
  /\ regFile[1] # 0 /\ stats.resultReg[ID] = 1

\* C10: when branches = 0 at the end of a run, printFinalStats evaluates no
\* quotient with a zero denominator.
C10_NoDivisionByZero ==
  (report # <<>> /\ stats.branches = 0)
    => \A k \in DOMAIN report : report[k].den # 0

(* ------------------------- the claims, C11 .. C20 ---------------------- *)

\* the positions, in a list of tracker calls, of the calls of function f
PositionsOf(calls, f) == {k \in DOMAIN calls : calls[k].f = f}

\* C11: in the decode of every executed instruction that reports both source
\* reads and a destination write, every registerSrc call comes before the
\* registerDest call.
C11_SrcBeforeDest ==
  instructions > 0 =>
    \A k \in PositionsOf(CallsOf(instr), "registerSrc") :
      \A m \in PositionsOf(CallsOf(instr), "registerDest") : k < m

\* C12: for every executed instruction whose writeback commits a value to a
\* general-purpose register (writeDest and destReg > 0), decode made exactly
\* one registerDest call, with the register index writeback writes.
C12_DestReportedOnce ==
  (instructions > 0 /\ ~fault /\ writeDest /\ destReg > 0)
    => \E m \in DOMAIN CallsOf(instr) :
         /\ PositionsOf(CallsOf(instr), "registerDest") = {m}
         /\ CallsOf(instr)[m].arg = destReg

\* CPU::decode: the general-purpose registers whose value the decode of
\* instruction i reads from regFile as ALU operand, store data, branch
\* comparand or jump target.  (Trap request 1 also reads regFile[rs], to
\* print it; that read is none of these four.)
ReadsOf(i) ==
  CASE i.op \in {"sll", "sra", "jr", "addiu", "andi", "lw"} -> {i.rs}
    [] i.op \in {"mult", "div", "addu", "subu", "slt", "beq", "bne", "sw"}
         -> {i.rs, i.rt}
    [] i.op \in {"mfhi", "mflo", "jal"} -> {REG_ZERO}
    [] OTHER -> {}

\* C13: every non-zero general-purpose register the decode of an executed
\* instruction reads from the register file is reported by a registerSrc
\* call of that decode.
C13_ReadsReported ==
  instructions > 0 =>
    \A r \in ReadsOf(instr) \ {REG_ZERO} :
      \E k \in PositionsOf(CallsOf(instr), "registerSrc") :
        CallsOf(instr)[k].arg = r

\* C14: after any sequence of instructions, taken is the number of executed
\* beq, bne whose condition held, and branches the number of executed beq,
\* bne.
C14_TakenCountsHeldBranches ==
  /\ stats.taken = hist.held
  /\ stats.branches = hist.cond

\* count successive calls of clock
RECURSIVE ClockTimes(_, _)
ClockTimes(s, count) == IF count = 0 THEN s ELSE ClockTimes(clock(s), count - 1)

\* C15: for every slot content and every count in 0 .. PIPESTAGES,
\* flush(count) leaves the slots as count clock calls would, adds count to
\* cycles and to flushes, and leaves bubbles as they were.
C15_FlushIsClocks ==
  \A count \in 0 .. PIPESTAGES :
    \A f \in {flush(stats, count)} :
      /\ f.resultReg = ClockTimes(stats, count).resultReg
      /\ f.cycles = stats.cycles + count
      /\ f.flushes = stats.flushes + count
      /\ f.bubbles = stats.bubbles

\* C15 witness: flush(3) has run on a tracker with a write pending in EXE2,
\* which it moved to WB
C15_Witness ==
  /\ hist.last = Flush(3) /\ stats.flushes = 3
  /\ stats.cycles = (PIPESTAGES - 1) + 3 /\ stats.bubbles = 0
  /\ stats.resultReg[WB] = 1
  /\ \A i \in IF1 .. ID : stats.resultReg[i] = -1

\* the non-zero registers a slot may hold, and one no slot holds
SrcRegs == (SlotVals \ {-1, REG_ZERO}) \cup {REG_RA}

\* C16: for r # 0, registerSrc(r) with exactly one slot i of EXE1..MEM2
\* holding r inserts WB - i bubbles (bubbles and cycles grow by that); with
\* no such slot it changes nothing, whatever IF1, IF2, ID and WB hold.
C16_SingleMatchBubbles ==
  \A r \in SrcRegs :
    \A after \in {registerSrc(stats, r)} :
      /\ \A i \in EXE1 .. MEM2 :
           MatchesOf(stats, r) = {i} =>
             /\ after.bubbles = stats.bubbles + (WB - i)
             /\ after.cycles = stats.cycles + (WB - i)
      /\ MatchesOf(stats, r) = {} => after = stats

\* C16 witness: registerSrc(1) has run with register 1 pending in EXE2 only,
\* and inserted 3 bubbles
C16_Witness ==
  /\ hist.last = Src(1) /\ hist.matched = 1
  /\ stats.bubbles = 3 /\ stats.cycles = (PIPESTAGES - 1) + 3
  /\ stats.resultReg[WB] = 1

\* C17: bubble adds 1 to bubbles and to cycles, leaves flushes, memops,
\* branches, taken and the slots IF1, IF2, ID alone, empties EXE1 and moves
\* the former EXE1..MEM2 one slot on.
C17_BubbleFrame ==
  \A b \in {bubble(stats)} :
    /\ b.bubbles = stats.bubbles + 1
    /\ b.cycles = stats.cycles + 1
    /\ b.flushes = stats.flushes /\ b.memops = stats.memops
    /\ b.branches = stats.branches /\ b.taken = stats.taken
    /\ \A i \in {IF1, IF2, ID} : b.resultReg[i] = stats.resultReg[i]
    /\ b.resultReg[EXE1] = -1
    /\ \A i \in EXE1 .. MEM2 : b.resultReg[i + 1] = stats.resultReg[i]

\* C17 witness: bubble has run; the write pending in ID stayed there, the one
\* in EXE1 moved to EXE2
C17_Witness ==
  /\ hist.last = Bubble /\ stats.bubbles = 1 /\ stats.cycles = PIPESTAGES
  /\ stats.resultReg[ID] = 1 /\ stats.resultReg[EXE1] = -1
  /\ stats.resultReg[EXE2] = 1

\* the lowest slot of EXE1..MEM2 that holds r
LowestMatch(s, r) ==
  CHOOSE i \in MatchesOf(s, r) : \A j \in MatchesOf(s, r) : i <= j

\* C18: for r # 0 and any slot content, registerSrc(r) inserts at most
\* WB - EXE1 bubbles, as many as the lowest slot holding r calls for, and
\* leaves no slot of EXE1..MEM2 holding r.
C18_SrcBubblesBounded ==
  \A r \in SrcRegs :
    \A after \in {registerSrc(stats, r)} :
      /\ after.bubbles - stats.bubbles <= WB - EXE1
      /\ MatchesOf(stats, r) # {} =>
           after.bubbles - stats.bubbles = WB - LowestMatch(stats, r)
      /\ MatchesOf(after, r) = {}

\* C18 witness: registerSrc(1) has run with register 1 pending in three
\* slots, the lowest EXE2, and inserted 3 bubbles
C18_Witness ==
  /\ hist.last = Src(1) /\ hist.matched = 3
  /\ stats.bubbles = 3 /\ stats.resultReg[WB] = 1
  /\ MatchesOf(stats, 1) = {}

\* the register indices decode passes to registerDest and registerSrc
TrackedRegs == FieldRegs \cup {REG_RA, REG_HILO}

\* C19: registerDest(d) then registerSrc(s) leaves the tracker as
\* registerSrc(s) then registerDest(d) does, for all d and s.
C19_DestSrcCommute ==
  \A d, s \in TrackedRegs :
    registerSrc(registerDest(stats, d), s)
      = registerDest(registerSrc(stats, s), d)

\* C19 witness: addiu $1, $1 has reported its write of register 1 and then
\* its read of register 1, which stalled on an older write pending in MEM1
C19_Witness ==
  /\ instr = Instr("addiu", 1, 1, 0, 0, 0)
  /\ stats.resultReg[ID] = 1 /\ stats.bubbles = 2
  /\ stats.resultReg[WB] = 1

\* C20: every index of the slot array that clock, bubble, registerSrc,
\* registerDest and flush(count), count >= 0, read or write lies in
\* 0 .. PIPESTAGES - 1.
C20_IndicesInBounds == IndicesOf(hist.last) \subseteq 0 .. PIPESTAGES - 1

====
